---- MODULE Spec2Model ----
(***************************************************************************)
(* Lobo: live order-book / trade feature fusion.                           *)
(*   analyzer/trade_activity_analyzer.py  TradeActivityAnalyzer            *)
(*   runner.py                            CombinedStreamRunner             *)
(* StreamMerger, RealTimeOrderBook and TradesStream are imported by        *)
(* runner.py but their sources are not part of the tree; they are modelled *)
(* from the design document (sections 4.1, 4.2, 4.4, 5).                   *)
(*                                                                         *)
(* Time is counted in ticks of half a second.  Volumes are integers and    *)
(* ratios are exact fractions <<numerator, denominator>>.                  *)
(***************************************************************************)
EXTENDS Integers, Sequences, FiniteSets, TLC

VARIABLES
    \* ---- TradeActivityAnalyzer
    cfg,                    \* thresholds given to __init__
    callbacks,              \* self.callbacks, in registration order
    auditLog,               \* the lines of save_path
    logExists,              \* os.path.exists(save_path)
    constructions,          \* analyzers constructed on save_path so far
    cbLog,                  \* every callback invocation so far: <<index, event>>
    lastCall,               \* what the last process_event call did
    \* ---- clock
    now,                    \* time.time(), in ticks
    \* ---- StreamMerger
    mergerState,            \* "created", "running", "stopping", "stopped"
    pending,                \* the pending buffer, ordered by target timestamp
    finalized,              \* the FinalizedRecords emitted so far, in order
    discarded,              \* ids of the records discarded at shutdown
    lastPrice,              \* the most recently observed price, or None
    nextId,                 \* id of the next PendingRecord
    lastOp,                 \* the last call the merger received
    \* ---- RealTimeOrderBook / TradesStream
    obLive,                 \* the order-book ingestion loop still delivers updates
    trLive,                 \* the trade ingestion loop still delivers trades
    bids,                   \* the bid ladder: price level -> quantity
    asks,                   \* the ask ladder: price level -> quantity
    obLast,                 \* the last update message the order book received
    \* ---- CombinedStreamRunner
    running,                \* self._running
    regs,                   \* how many times _setup_callbacks has run
    modelCase,              \* the model_path given: "nopath", "loads", "fails"
    model_runner,           \* self.model_runner: "none" or "loaded"
    merge_callbacks,        \* the callbacks subscribed with merger.on_merge
    tasks,                  \* self.tasks: the state of each of the three tasks
    runPc,                  \* where run() is: "none", "loop", "returned"
    stopPc,                 \* where stop() is: "idle", "gather", "merger",
                            \*   "await", "returned", "raised", "scheduled"
    obStop,                 \* orderbook.stop() inside gather: "none", "pending", "ok", "exc"
    trStop,                 \* trades.stop() inside gather
    last_activity_spike_ts, \* self._last_activity_spike_ts
    latest_trade_agg,       \* self._latest_trade_agg
    lastEvent,              \* the last event handed to merger.add_orderbook
    lastUpdate,             \* the last update the order book notified its observers of
    hSpike,                 \* timestamp of the last ActivitySpikeEvent handled
    late                    \* an event reached the merger after merger.stop() began

None == -1
NoMid == 0                  \* get_mid_price() with a ladder empty: falsy

fileVars == <<logExists, constructions>>
analyzerVars == <<cfg, callbacks, auditLog, logExists, constructions, cbLog, lastCall>>
mergerVars == <<mergerState, pending, finalized, discarded, lastPrice, nextId, lastOp>>
bookVars == <<bids, asks, obLast>>
sourceVars == <<obLive, trLive, bids, asks, obLast>>
modelVars == <<modelCase, model_runner, merge_callbacks>>
lifecycleVars == <<running, regs, modelCase, model_runner, merge_callbacks,
                   tasks, runPc, stopPc, obStop, trStop>>
spikeVars == <<last_activity_spike_ts, hSpike>>
runnerVars == <<obLive, trLive, bids, asks, obLast, running, regs,
                modelCase, model_runner, merge_callbacks,
                tasks, runPc, stopPc, obStop, trStop,
                last_activity_spike_ts, latest_trade_agg, lastEvent, lastUpdate,
                hSpike, late>>
vars == <<cfg, callbacks, auditLog, logExists, constructions, cbLog, lastCall, now,
          mergerState, pending, finalized, discarded, lastPrice, nextId, lastOp,
          obLive, trLive, bids, asks, obLast,
          running, regs, modelCase, model_runner, merge_callbacks,
          tasks, runPc, stopPc, obStop, trStop,
          last_activity_spike_ts, latest_trade_agg, lastEvent, lastUpdate, hSpike, late>>

----------------------------------------------------------------------------
(* Bounds *)
MaxCalls == 1         \* process_event calls in the analyzer specification
MaxCallbacks == 2     \* callbacks registered in the analyzer specification
MaxRecords == 2       \* PendingRecords created in the merger specification

----------------------------------------------------------------------------
(* Exact fractions *)
RatGT(a, b) == a[1] * b[2] > b[1] * a[2]
RatLT(a, b) == a[1] * b[2] < b[1] * a[2]

----------------------------------------------------------------------------
(* TradeActivityAnalyzer *)

DefaultVolumeThreshold == 10
RatioSentinel == 1000000
DefaultCfg ==
    [volume_threshold     |-> DefaultVolumeThreshold,
     imbalance_ratio_high |-> <<2, 1>>,
     imbalance_ratio_low  |-> <<1, 2>>,
     spike_multiplier     |-> <<6, 5>>]

\* save_path keeps its default "activity_spikes.jsonl" at every construction
\* in the tree, so the `if self.save_path` guards are taken.
SavePathSet == TRUE

\* Thresholds the analyzer specification is run with: the defaults, and
\* settings under which a zero-volume aggregate would satisfy a condition.
CfgSet ==
    { DefaultCfg,
      [DefaultCfg EXCEPT !.imbalance_ratio_low = <<3, 2>>],
      [DefaultCfg EXCEPT !.volume_threshold = -1],
      [DefaultCfg EXCEPT !.spike_multiplier = <<1, 2>>, !.volume_threshold = 5] }

Volumes == {0, 1, 3, 6}
Means == {0, 5}
Aggregates(t) ==
    [ts : {t}, buy_volume : Volumes, sell_volume : Volumes,
     buy_mean : Means, sell_mean : Means]

total_volume(agg) == agg.buy_volume + agg.sell_volume
ma_volume(agg) == agg.buy_mean + agg.sell_mean

spike(c, agg) ==
    /\ ma_volume(agg) > 0
    /\ total_volume(agg) * c.spike_multiplier[2]
         > c.spike_multiplier[1] * ma_volume(agg)

buy_sell_ratioNoSentinel(agg) ==
    IF agg.sell_volume > 0 THEN <<agg.buy_volume, agg.sell_volume>>
    ELSE <<1, 1>>
buy_sell_ratio(agg) ==
    IF agg.sell_volume > 0 THEN <<agg.buy_volume, agg.sell_volume>>
    ELSE IF agg.buy_volume > 0 THEN <<RatioSentinel, 1>>
    ELSE <<1, 1>>

imbalance(c, agg) ==
    \/ RatGT(buy_sell_ratio(agg), c.imbalance_ratio_high)
    \/ RatLT(buy_sell_ratio(agg), c.imbalance_ratio_low)

volume_exceeded(c, agg) == total_volume(agg) > c.volume_threshold

direction(agg) == IF RatGT(buy_sell_ratio(agg), <<1, 1>>) THEN "buy" ELSE "sell"

reasonImbalanceFirst(c, agg) ==
    IF imbalance(c, agg) THEN "imbalance"
    ELSE IF spike(c, agg) THEN "spike"
    ELSE "volume_exceeded"
reason(c, agg) ==
    IF spike(c, agg) THEN "spike"
    ELSE IF imbalance(c, agg) THEN "imbalance"
    ELSE "volume_exceeded"

spike_data(c, agg) ==
    [ts             |-> agg.ts,
     buy_volume     |-> agg.buy_volume,
     sell_volume    |-> agg.sell_volume,
     buy_sell_ratio |-> buy_sell_ratio(agg),
     ma_volume      |-> ma_volume(agg),
     direction      |-> direction(agg),
     reason         |-> reason(c, agg)]

\* if total_volume == 0: return
ZeroVolumeReturnSkipped(agg) == FALSE
ZeroVolumeReturn(agg) == total_volume(agg) = 0

\* if spike or imbalance or volume_exceeded
Detected(c, agg) == spike(c, agg) \/ imbalance(c, agg) \/ volume_exceeded(c, agg)

\* The callbacks `for cb in self.callbacks: cb(spike_data)` reaches: all of
\* them, or those up to and including the first one that raises.
Raisers(cbs) == { i \in 1..Len(cbs) : cbs[i] = "raise" }
FirstRaiser(cbs) == CHOOSE i \in Raisers(cbs) : \A j \in Raisers(cbs) : i <= j
NInvoked(cbs) == IF Raisers(cbs) = {} THEN Len(cbs) ELSE FirstRaiser(cbs)

\* The effects of the emitting branch, in program order.
EmitEffectsCallbacksFirst(cbs) ==
    [fx      |-> [i \in 1..NInvoked(cbs) |-> "callback"]
                 \o (IF SavePathSet /\ Raisers(cbs) = {} THEN <<"append">> ELSE <<>>),
     logged  |-> SavePathSet /\ Raisers(cbs) = {},
     invoked |-> NInvoked(cbs),
     raised  |-> Raisers(cbs) # {}]
EmitEffects(cbs) ==
    [fx      |-> (IF SavePathSet THEN <<"append">> ELSE <<>>)
                 \o [i \in 1..NInvoked(cbs) |-> "callback"],
     logged  |-> SavePathSet,
     invoked |-> NInvoked(cbs),
     raised  |-> Raisers(cbs) # {}]

NoAgg == [ts |-> None, buy_volume |-> 0, sell_volume |-> 0, buy_mean |-> 0, sell_mean |-> 0]
NoCall == [agg |-> NoAgg, emitted |-> FALSE, fx |-> <<>>, outcome |-> "none"]

\* _handle_activity_spike, reached through the analyzer's callback list
handle_activity_spike(data) == data.ts

process_event(agg) ==
    IF ZeroVolumeReturn(agg) \/ ~Detected(cfg, agg)
    THEN /\ lastCall' = [agg |-> agg, emitted |-> FALSE, fx |-> <<>>,
                         outcome |-> "returned"]
         /\ UNCHANGED <<auditLog, logExists, cbLog, last_activity_spike_ts, hSpike>>
    ELSE LET data == spike_data(cfg, agg)
             e    == EmitEffects(callbacks)
         IN  /\ auditLog' = IF e.logged THEN Append(auditLog, data) ELSE auditLog
             /\ logExists' = (logExists \/ e.logged)
             /\ cbLog' = cbLog \o [i \in 1..e.invoked |-> <<i, data>>]
             /\ last_activity_spike_ts' =
                    IF \E i \in 1..e.invoked : callbacks[i] = "runner"
                    THEN handle_activity_spike(data)
                    ELSE last_activity_spike_ts
             /\ hSpike' =
                    IF \E i \in 1..e.invoked : callbacks[i] = "runner"
                    THEN data.ts
                    ELSE hSpike
             /\ lastCall' = [agg |-> agg, emitted |-> TRUE, fx |-> e.fx,
                             outcome |-> IF e.raised THEN "raised" ELSE "returned"]

\* on_activity(callback)
on_activity(cb) == callbacks' = Append(callbacks, cb)

----------------------------------------------------------------------------
(* StreamMerger (design document, section 4.4) *)

FutureOffset == 10          \* future_offset = 5 seconds
ThresholdPctDen == 1000     \* threshold_pct = 0.001 = 1 / ThresholdPctDen

TargetTs(r) == r.ts + FutureOffset

\* futureReturn = (price' - price) / price against +-thresholdPct, for a
\* positive record price, without the division.
LabelNonStrict(price, future_price) ==
    IF (future_price - price) * ThresholdPctDen >= price THEN "up"
    ELSE IF (future_price - price) * ThresholdPctDen <= -price THEN "down"
    ELSE "flat"
Label(price, future_price) ==
    IF (future_price - price) * ThresholdPctDen > price THEN "up"
    ELSE IF (future_price - price) * ThresholdPctDen < -price THEN "down"
    ELSE "flat"

Finalize(r, future_price) ==
    [id |-> r.id, ts |-> r.ts, price |-> r.price,
     future_price |-> future_price, label |-> Label(r.price, future_price)]

\* The ordered pending buffer: a record goes behind every record whose
\* target timestamp is not later than its own.
RECURSIVE Enqueue(_, _)
Enqueue(buf, r) ==
    IF buf = <<>> THEN <<r>>
    ELSE IF TargetTs(Head(buf)) <= TargetTs(r)
         THEN <<Head(buf)>> \o Enqueue(Tail(buf), r)
         ELSE <<r>> \o buf

\* The scan from the head of the buffer: the number of leading records whose
\* target timestamp has been reached at time T.
RECURSIVE ReadyCountOffByOne(_, _)
ReadyCountOffByOne(buf, T) ==
    IF buf = <<>> \/ TargetTs(Head(buf)) >= T THEN 0
    ELSE 1 + ReadyCountOffByOne(Tail(buf), T)
RECURSIVE ReadyCount(_, _)
ReadyCount(buf, T) ==
    IF buf = <<>> \/ TargetTs(Head(buf)) > T THEN 0
    ELSE 1 + ReadyCount(Tail(buf), T)

\* The records an observation finalizes while it leaves the buffer alone.
ResolvedKeepingBuffer(buf, T, price) ==
    [resolved |-> [i \in 1..ReadyCount(buf, T) |-> Finalize(buf[i], price)],
     rest     |-> buf]
\* A price observation (T, price): the ready head of the buffer is finalized
\* and removed, oldest first.
Resolved(buf, T, price) ==
    [resolved |-> [i \in 1..ReadyCount(buf, T) |-> Finalize(buf[i], price)],
     rest     |-> SubSeq(buf, ReadyCount(buf, T) + 1, Len(buf))]

Accepting == mergerState \in {"created", "running"}

\* addOrderbookFeatureEvent(record): the mid price is a price observation at
\* record.ts; the record is then enqueued with targetTimestamp ts + offset.
add_orderbook(event) ==
    IF ~Accepting THEN UNCHANGED mergerVars
    ELSE LET o == Resolved(pending, event.ts, event.mid_price)
             r == [id |-> nextId, ts |-> event.ts, price |-> event.mid_price]
         IN  /\ finalized' = finalized \o o.resolved
             /\ pending' = Enqueue(o.rest, r)
             /\ lastPrice' = event.mid_price
             /\ nextId' = nextId + 1
             /\ lastOp' = [kind |-> "orderbook", T |-> event.ts,
                           price |-> event.mid_price, id |-> nextId]
             /\ UNCHANGED <<mergerState, discarded>>

\* addTradePrice(timestamp, price)
add_trade(trade) ==
    IF ~Accepting THEN UNCHANGED mergerVars
    ELSE LET o == Resolved(pending, trade.ts, trade.price)
         IN  /\ finalized' = finalized \o o.resolved
             /\ pending' = o.rest
             /\ lastPrice' = trade.price
             /\ lastOp' = [kind |-> "trade", T |-> trade.ts,
                           price |-> trade.price, id |-> None]
             /\ UNCHANGED <<mergerState, discarded, nextId>>

\* stop(): drain with the most recently observed price as the terminal price;
\* with no price ever observed the records are discarded.
DrainDropsPending(buf, price) ==
    [resolved |-> <<>>, dropped |-> {}]
Drain(buf, price) ==
    IF price # None
    THEN [resolved |-> [i \in 1..Len(buf) |-> Finalize(buf[i], price)],
          dropped  |-> {}]
    ELSE [resolved |-> <<>>,
          dropped  |-> { buf[i].id : i \in 1..Len(buf) }]

merger_stop_drain ==
    LET d == Drain(pending, lastPrice)
    IN  /\ finalized' = finalized \o d.resolved
        /\ discarded' = discarded \cup d.dropped
        /\ pending' = <<>>
        /\ lastOp' = [kind |-> "stop", T |-> None, price |-> lastPrice, id |-> None]
        /\ UNCHANGED <<lastPrice, nextId>>

Tasks == {"orderbook", "trades", "merger"}
NoEvent == [ts |-> None, ob_ts |-> None, mid_price |-> None, activity_spike |-> 0,
            at |-> None, t0 |-> None, agg_ts |-> None, agg |-> NoAgg, n |-> 0]

NoUpdate == [side |-> "none", price |-> 0, qty |-> 0]
EmptyLadder == [p \in {} |-> 0]

\* __init__, lines 50 and 56-61: ModelRunner(model_path) is constructed
\* when a path is given; an exception of the constructor is caught and
\* model_runner keeps its None.
init_model_runner(mc) == IF mc = "loads" THEN "loaded" ELSE "none"

\* _setup_callbacks, lines 83-85: `if self.model_runner`
setup_inferenceAlways(mr) == <<"_handle_inference">>
setup_inference(mr) == IF mr # "none" THEN <<"_handle_inference">> ELSE <<>>

\* CombinedStreamRunner(symbol, model_path)
InitRunner(mc) ==
    /\ modelCase = mc
    /\ model_runner = init_model_runner(mc)
    /\ merge_callbacks = <<>>
    /\ obLive = FALSE
    /\ trLive = FALSE
    /\ bids = EmptyLadder
    /\ asks = EmptyLadder
    /\ obLast = [update |-> NoUpdate, applied |-> FALSE]
    /\ running = FALSE
    /\ regs = 0
    /\ tasks = [t \in Tasks |-> "none"]
    /\ runPc = "none"
    /\ stopPc = "idle"
    /\ obStop = "none"
    /\ trStop = "none"
    /\ last_activity_spike_ts = None
    /\ latest_trade_agg = NoAgg
    /\ lastEvent = NoEvent
    /\ lastUpdate = [mid |-> NoMid, at |-> None, base |-> 0, left |-> 0]
    /\ hSpike = None
    /\ late = FALSE

\* CombinedStreamRunner(symbol): model_path keeps its default None
InitRunnerVars == InitRunner("nopath")

InitMergerVars ==
    /\ mergerState = "created"
    /\ pending = <<>>
    /\ finalized = <<>>
    /\ discarded = {}
    /\ lastPrice = None
    /\ nextId = 1
    /\ lastOp = [kind |-> "none", T |-> None, price |-> None, id |-> None]

----------------------------------------------------------------------------
(* The merger on its own: feature events, price observations and stop() in *)
(* any order; each feed's timestamps are non-decreasing.                   *)

MergerTimes == {0, 4, FutureOffset, FutureOffset + 4}
Prices == {999, 1000, 1001, 1002}

InitMerger ==
    /\ cfg = DefaultCfg
    /\ callbacks = <<>>
    /\ auditLog = <<>>
    /\ logExists = TRUE
    /\ constructions = 1
    /\ cbLog = <<>>
    /\ lastCall = NoCall
    /\ now = 0
    /\ InitRunnerVars
    /\ InitMergerVars

MergerRuns ==
    /\ mergerState = "created"
    /\ mergerState' = "running"
    /\ UNCHANGED <<pending, finalized, discarded, lastPrice, nextId, lastOp>>
    /\ UNCHANGED <<analyzerVars, now, runnerVars>>

FeatureEvent ==
    /\ nextId <= MaxRecords
    /\ \E t \in MergerTimes, p \in Prices :
         /\ \A i \in 1..Len(pending) : pending[i].ts <= t
         /\ \A i \in 1..Len(finalized) : finalized[i].ts <= t
         /\ add_orderbook([ts |-> t, mid_price |-> p])
    /\ UNCHANGED <<analyzerVars, now, runnerVars>>

\* `now` is the trade feed's clock here: a trade's timestamp is not earlier
\* than the one before it.  The order-book feed's timestamps are independent
\* of it.
TradePrint ==
    /\ \E t \in MergerTimes, p \in Prices :
         /\ now <= t
         /\ now' = t
         /\ add_trade([ts |-> t, price |-> p])
    /\ UNCHANGED <<analyzerVars, runnerVars>>

MergerStops ==
    /\ mergerState = "running"
    /\ mergerState' = "stopped"
    /\ merger_stop_drain
    /\ UNCHANGED <<analyzerVars, now, runnerVars>>

NextMerger == MergerRuns \/ FeatureEvent \/ TradePrint \/ MergerStops

SpecMerger == InitMerger /\ [][NextMerger]_vars

----------------------------------------------------------------------------
(* Properties of the merger *)

Occurrences(id) ==
    Cardinality({ i \in 1..Len(pending) : pending[i].id = id })
    + Cardinality({ i \in 1..Len(finalized) : finalized[i].id = id })
    + (IF id \in discarded THEN 1 ELSE 0)

\* C1: every PendingRecord has exactly one place: it is in the pending
\* buffer, or it was finalized once, or it was discarded; a record is
\* discarded at shutdown only; and once stop() has drained, no record is
\* left without its terminal outcome.
C1_ExactlyOneOutcome ==
    /\ \A id \in 1..(nextId - 1) : Occurrences(id) = 1
    /\ \A i \in 1..Len(pending) : pending[i].id \in 1..(nextId - 1)
    /\ \A i \in 1..Len(finalized) : finalized[i].id \in 1..(nextId - 1)
    /\ discarded # {} => mergerState \in {"stopping", "stopped"}
    /\ mergerState \in {"stopping", "stopped"} => pending = <<>>

\* C1 witness: two records, the first finalized by a price observation that
\* reached its target while the merger ran, the second finalized by stop().
C1_Witness ==
    /\ mergerState = "stopped"
    /\ Len(finalized) = 2
    /\ TargetTs(finalized[1]) <= now
    /\ TargetTs(finalized[2]) > now
    /\ finalized[1].id # finalized[2].id

\* C2: stop() leaves the pending buffer empty, and when a price has been
\* observed every record that was pending (its target reached or not) is
\* finalized with a label computed from the most recently observed price;
\* nothing is discarded.
C2_StopDrains ==
    [][ (lastOp'.kind = "stop" /\ lastOp.kind # "stop")
        => /\ pending' = <<>>
           /\ lastPrice # None =>
                /\ discarded' = discarded
                /\ Len(finalized') = Len(finalized) + Len(pending)
                /\ \A i \in 1..Len(pending) :
                     LET f == finalized'[Len(finalized) + i]
                     IN  /\ f.id = pending[i].id
                         /\ f.future_price = lastPrice
                         /\ f.label = Label(pending[i].price, lastPrice) ]_vars

\* C2 witness: futureOffset = 5 s, a record created at t = 0, the last price
\* p observed at t = 2 s, then stop(): the record is finalized from p.
C2_Witness ==
    /\ mergerState = "stopped" /\ lastOp.kind = "stop"
    /\ now = 4
    /\ discarded = {}
    /\ \E i \in 1..Len(finalized) :
         /\ finalized[i].ts = 0
         /\ finalized[i].future_price = lastPrice
         /\ finalized[i].future_price # finalized[i].price

\* C5: a price observation at time T, from a raw trade or from an order-book
\* mid price, finalizes exactly the pending records with ts + futureOffset
\* <= T, oldest first, and removes them; the records with a later target
\* stay pending, unchanged and in order.
C5_ExactlyReadyFinalized ==
    [][ (lastOp' # lastOp /\ lastOp'.kind \in {"trade", "orderbook"})
        => LET T    == lastOp'.T
               done == SelectSeq(pending, LAMBDA r : r.ts + FutureOffset <= T)
               kept == SelectSeq(pending, LAMBDA r : r.ts + FutureOffset > T)
           IN  /\ Len(finalized') = Len(finalized) + Len(done)
               /\ SubSeq(finalized', 1, Len(finalized)) = finalized
               /\ \A i \in 1..Len(done) :
                    LET f == finalized'[Len(finalized) + i]
                    IN  /\ f.id = done[i].id
                        /\ f.ts = done[i].ts
                        /\ f.price = done[i].price
                        /\ f.future_price = lastOp'.price
               /\ \A i, j \in 1..Len(done) : i < j => done[i].ts <= done[j].ts
               /\ SelectSeq(pending', LAMBDA r : r.id # lastOp'.id) = kept ]_vars

\* C5 witness: one observation found a record whose target it had reached
\* exactly and another whose target was still ahead; the first is finalized
\* and the second is the whole pending buffer.
C5_Witness ==
    /\ lastOp.kind = "trade"
    /\ Len(finalized) = 1 /\ Len(pending) = 1
    /\ TargetTs(finalized[1]) = lastOp.T
    /\ TargetTs(pending[1]) > lastOp.T
    /\ finalized[1].future_price = lastOp.price

\* C6: a finalized record is labeled "up" iff futureReturn > thresholdPct,
\* "down" iff futureReturn < -thresholdPct and "flat" otherwise, both
\* comparisons strict (thresholdPct = 0.001; prices in tenths).
C6_LabelStrict ==
    \A i \in 1..Len(finalized) :
        LET f == finalized[i]
            d == f.future_price - f.price
        IN  /\ f.label \in {"up", "down", "flat"}
            /\ f.label = "up" <=> 1000 * d > f.price
            /\ f.label = "down" <=> 1000 * d < -f.price
            /\ (1000 * d = f.price \/ 1000 * d = -f.price) => f.label = "flat"

\* C6 witness: price 100.0 with future price 100.2 is "up", and price 100.0
\* with future price 99.9 (return exactly -0.001) is "flat".
C6_Witness ==
    \E i, j \in 1..Len(finalized) :
        /\ finalized[i].price = 1000 /\ finalized[i].future_price = 1002
        /\ finalized[i].label = "up"
        /\ finalized[j].price = 1000 /\ finalized[j].future_price = 999
        /\ finalized[j].label = "flat"

----------------------------------------------------------------------------
(* The analyzer on its own: any thresholds, any callbacks, any aggregate. *)

InitAnalyzer ==
    /\ cfg \in CfgSet
    /\ callbacks = <<>>
    /\ auditLog = <<>>
    /\ logExists = TRUE
    /\ constructions = 1
    /\ cbLog = <<>>
    /\ lastCall = NoCall
    /\ now = 0
    /\ InitRunnerVars
    /\ InitMergerVars

RegisterCallback ==
    /\ constructions > 0
    /\ Len(callbacks) < MaxCallbacks
    /\ \E cb \in {"ok", "raise"} : on_activity(cb)
    /\ UNCHANGED <<cfg, auditLog, fileVars, cbLog, lastCall, now>>
    /\ UNCHANGED <<mergerVars, runnerVars>>

\* Each aggregate carries the window end `now` as its ts.
ProcessAggregate ==
    /\ constructions > 0
    /\ now < MaxCalls
    /\ \E agg \in Aggregates(now) : process_event(agg)
    /\ now' = now + 1
    /\ UNCHANGED <<cfg, callbacks, constructions>>
    /\ UNCHANGED <<mergerVars, sourceVars, lifecycleVars, latest_trade_agg, lastEvent, lastUpdate, late>>

NextAnalyzer == RegisterCallback \/ ProcessAggregate

SpecAnalyzer == InitAnalyzer /\ [][NextAnalyzer]_vars

----------------------------------------------------------------------------
(* Properties of TradeActivityAnalyzer.process_event *)

Called == lastCall.outcome # "none"
LastLine == auditLog[Len(auditLog)]

\* C8: process_event emits an ActivitySpikeEvent iff totalVolume != 0 and at
\* least one of spike, imbalance, volumeExceeded holds; the event's reason is
\* "spike" when spike holds, else "imbalance" when imbalance holds, else
\* "volume_exceeded"; its direction is "buy" iff buySellRatio > 1 and "sell"
\* otherwise, ratio exactly 1 included.
C8_EmitIffAndPriority ==
    Called =>
      LET a  == lastCall.agg
          sp == spike(cfg, a)
          im == imbalance(cfg, a)
          ve == volume_exceeded(cfg, a)
          r  == buy_sell_ratio(a)
      IN  /\ lastCall.emitted <=> (a.buy_volume + a.sell_volume # 0 /\ (sp \/ im \/ ve))
          /\ lastCall.emitted =>
                /\ Len(auditLog) > 0
                /\ LastLine.ts = a.ts
                /\ sp => LastLine.reason = "spike"
                /\ (~sp /\ im) => LastLine.reason = "imbalance"
                /\ (~sp /\ ~im) => LastLine.reason = "volume_exceeded"
                /\ (r[1] > r[2]) => LastLine.direction = "buy"
                /\ (r[1] <= r[2]) => LastLine.direction = "sell"

\* C8 witness: an aggregate where spike and imbalance both hold was emitted
\* with reason "spike", and the ratio is at most 1 (direction "sell").
C8_Witness ==
    /\ Called /\ lastCall.emitted
    /\ spike(cfg, lastCall.agg) /\ imbalance(cfg, lastCall.agg)
    /\ lastCall.agg.buy_volume <= lastCall.agg.sell_volume
    /\ LastLine.reason = "spike" /\ LastLine.direction = "sell"

\* C9: for an aggregate with buyVolume + sellVolume = 0 a process_event call
\* invokes no callback and appends nothing to the audit log, whatever the
\* moving averages and the thresholds.
C9_ZeroVolumeNoEffect ==
    [][ ( /\ lastCall' # lastCall
          /\ lastCall'.agg.buy_volume + lastCall'.agg.sell_volume = 0 )
        => ( /\ auditLog' = auditLog
             /\ cbLog' = cbLog
             /\ last_activity_spike_ts' = last_activity_spike_ts
             /\ lastCall'.outcome = "returned" ) ]_vars

\* C9 witness: a zero-volume aggregate with a positive moving average was
\* processed, with a callback registered, under thresholds for which the
\* ratio 1.0 of an empty aggregate counts as an imbalance.
C9_Witness ==
    /\ Called
    /\ lastCall.agg.buy_volume + lastCall.agg.sell_volume = 0
    /\ lastCall.agg.buy_mean + lastCall.agg.sell_mean > 0
    /\ imbalance(cfg, lastCall.agg)
    /\ Len(callbacks) > 0
    /\ auditLog = <<>> /\ cbLog = <<>>

\* C10: for every emitted event the audit-log append comes before the first
\* callback invocation, and the line is in the log also when a callback
\* raised.
C10_LogBeforeCallbacks ==
    /\ \A i \in 1..Len(lastCall.fx) :
          lastCall.fx[i] = "callback" =>
             \E j \in 1..(i - 1) : lastCall.fx[j] = "append"
    /\ \A i \in 1..Len(cbLog) :
          \E j \in 1..Len(auditLog) : auditLog[j] = cbLog[i][2]
    /\ (Called /\ lastCall.emitted) =>
          /\ Len(auditLog) > 0
          /\ LastLine.ts = lastCall.agg.ts
          /\ LastLine.buy_volume = lastCall.agg.buy_volume

\* C10 witness: the second of two callbacks was never reached because the
\* first one raised, and the event's line is in the log.
C10_Witness ==
    /\ Called /\ lastCall.outcome = "raised"
    /\ Len(callbacks) = 2 /\ callbacks[1] = "raise"
    /\ Len(cbLog) = 1
    /\ Len(auditLog) = 1 /\ auditLog[1] = cbLog[1][2]

----------------------------------------------------------------------------
(* CombinedStreamRunner (runner.py) with its three collaborators *)

MaxTime == 2                \* the clock runs over 0..MaxTime ticks
MaxLog == 1                 \* ActivitySpikeEvents emitted in one run
MaxEvents == 1              \* feature events the runner emits in one run
ActivitySpikeTtl == 2       \* self._activity_spike_ttl = 1.0 second

Mids == {1000}              \* get_mid_price() when both ladders are non-empty
TradePrices == {999}
RunnerAggregates(t) ==
    { [ts |-> t, buy_volume |-> 6, sell_volume |-> 0, buy_mean |-> 0, sell_mean |-> 0],
      [ts |-> t, buy_volume |-> 3, sell_volume |-> 3, buy_mean |-> 0, sell_mean |-> 0] }

MergerStopStarted == stopPc \in {"merger", "await", "returned", "raised"}

\* `self._last_activity_spike_ts and (...)`: None and 0.0 are both falsy
Truthy(x) == x # None /\ x # 0

\* lines 101-106
activity_spike_feature(spike_ts, t) ==
    IF Truthy(spike_ts) /\ t - spike_ts < ActivitySpikeTtl THEN 1 ELSE 0

\* lines 108-117: the dict display; a key of the cached aggregate replaces
\* the same key written before it ("ts").
event_ts(ob_ts, agg) == IF agg = NoAgg THEN ob_ts ELSE agg.ts

\* _handle_trade_aggregate(agg_data), lines 87-89
handle_trade_aggregateKeepsFirst(cached, agg_data) ==
    IF cached = NoAgg THEN agg_data ELSE cached
handle_trade_aggregate(cached, agg_data) == agg_data

\* _handle_orderbook_update(ob)
handle_orderbook_update(mid, ob_ts) ==
    IF mid = NoMid
    THEN UNCHANGED <<last_activity_spike_ts, lastEvent, late, mergerVars>>
    ELSE LET flag == activity_spike_feature(last_activity_spike_ts, now)
             ts   == event_ts(ob_ts, latest_trade_agg)
         IN  /\ last_activity_spike_ts' =
                    IF flag = 1 THEN last_activity_spike_ts ELSE None
             /\ lastEvent' = [ts |-> ts, ob_ts |-> ob_ts, mid_price |-> mid,
                              activity_spike |-> flag, at |-> now, t0 |-> hSpike,
                              agg_ts |-> latest_trade_agg.ts,
                              agg |-> latest_trade_agg, n |-> lastEvent.n + 1]
             /\ late' = (late \/ MergerStopStarted)
             /\ add_orderbook([ts |-> ts, mid_price |-> mid])

\* _setup_callbacks
setup_callbacks ==
    /\ regs' = regs + 1
    /\ on_activity("runner")
    /\ merge_callbacks' = merge_callbacks \o setup_inference(model_runner)

\* run(), lines 147-160
Run ==
    /\ runPc = "none"
    /\ ~running
    /\ running' = TRUE
    /\ setup_callbacks
    /\ tasks' = [t \in Tasks |-> "running"]
    /\ obLive' = TRUE
    /\ trLive' = TRUE
    /\ mergerState' = "running"
    /\ runPc' = "loop"
    /\ UNCHANGED <<cfg, auditLog, fileVars, cbLog, lastCall, now>>
    /\ UNCHANGED <<pending, finalized, discarded, lastPrice, nextId, lastOp>>
    /\ UNCHANGED <<stopPc, obStop, trStop, spikeVars, latest_trade_agg, lastEvent, lastUpdate, late>>
    /\ UNCHANGED <<bookVars, modelCase, model_runner>>

\* run() on a running runner, lines 147-149
RunWhileRunning ==
    /\ running
    /\ UNCHANGED vars

\* run(), lines 163-164: the loop ends once _running is false
RunReturns ==
    /\ runPc = "loop"
    /\ ~running
    /\ runPc' = "returned"
    /\ UNCHANGED <<analyzerVars, now, mergerVars, sourceVars, spikeVars>>
    /\ UNCHANGED <<running, regs, modelVars, tasks, stopPc, obStop, trStop>>
    /\ UNCHANGED <<latest_trade_agg, lastEvent, lastUpdate, late>>

\* the clock
Tick ==
    /\ now < MaxTime
    /\ now' = now + 1
    /\ UNCHANGED <<analyzerVars, mergerVars, runnerVars>>

\* An order-book update is applied and the observers are notified: the
\* first registration of _handle_orderbook_update is called; `left` counts
\* the registrations of it still to be called for this update.
OrderbookUpdate ==
    /\ obLive
    /\ tasks["orderbook"] = "running"
    /\ lastEvent.n < MaxEvents
    /\ \E mid \in Mids \cup {NoMid} :
         /\ handle_orderbook_update(mid, now)
         /\ lastUpdate' = [mid |-> mid, at |-> now, base |-> lastEvent.n,
                           left |-> regs - 1]
    /\ UNCHANGED <<analyzerVars, now, sourceVars, lifecycleVars>>
    /\ UNCHANGED <<latest_trade_agg, hSpike>>

\* A raw trade: on_raw_trade(self.merger.add_trade)
RawTrade ==
    /\ trLive
    /\ tasks["trades"] = "running"
    /\ \E p \in TradePrices : add_trade([ts |-> now, price |-> p])
    /\ late' = (late \/ MergerStopStarted)
    /\ UNCHANGED <<analyzerVars, now, sourceVars, lifecycleVars>>
    /\ UNCHANGED <<spikeVars, latest_trade_agg, lastEvent, lastUpdate>>

\* A trade aggregate, at most one per tick of the window: first
\* _handle_trade_aggregate, then process_event
TradeAggregate ==
    /\ trLive
    /\ tasks["trades"] = "running"
    /\ latest_trade_agg.ts < now
    /\ \E agg \in RunnerAggregates(now) :
         /\ Detected(cfg, agg) => Len(auditLog) < MaxLog
         /\ latest_trade_agg' = handle_trade_aggregate(latest_trade_agg, agg)
         /\ process_event(agg)
    /\ UNCHANGED <<cfg, callbacks, constructions, now, mergerVars, sourceVars, lifecycleVars>>
    /\ UNCHANGED <<lastEvent, lastUpdate, late>>

\* stop(), lines 168-175: up to the gather of the two source stops
Stop ==
    /\ running
    /\ running' = FALSE
    /\ stopPc' = "gather"
    /\ obStop' = "pending"
    /\ trStop' = "pending"
    /\ UNCHANGED <<analyzerVars, now, mergerVars, sourceVars, spikeVars>>
    /\ UNCHANGED <<regs, modelVars, tasks, runPc, latest_trade_agg, lastEvent, lastUpdate, late>>

\* stop() on a runner that is not running, lines 168-169
StopWhenNotRunning ==
    /\ ~running
    /\ UNCHANGED vars

\* orderbook.stop() ends: normally, with ingestion halted, or with an
\* exception, raised before or after ingestion was halted.
OrderbookStopEnds ==
    /\ stopPc = "gather"
    /\ obStop = "pending"
    /\ \/ obStop' = "ok" /\ obLive' = FALSE
       \/ obStop' = "exc" /\ obLive' \in {obLive, FALSE}
    /\ UNCHANGED <<analyzerVars, now, mergerVars, trLive, bookVars, spikeVars>>
    /\ UNCHANGED <<running, regs, modelVars, tasks, runPc, stopPc, trStop>>
    /\ UNCHANGED <<latest_trade_agg, lastEvent, lastUpdate, late>>

\* trades.stop() ends
TradesStopEnds ==
    /\ stopPc = "gather"
    /\ trStop = "pending"
    /\ \/ trStop' = "ok" /\ trLive' = FALSE
       \/ trStop' = "exc" /\ trLive' \in {trLive, FALSE}
    /\ UNCHANGED <<analyzerVars, now, mergerVars, obLive, bookVars, spikeVars>>
    /\ UNCHANGED <<running, regs, modelVars, tasks, runPc, stopPc, obStop>>
    /\ UNCHANGED <<latest_trade_agg, lastEvent, lastUpdate, late>>

\* asyncio.gather(..., return_exceptions=True), lines 175-179: waits for
\* both, whatever their outcome
GatherDoneWithoutExceptions == obStop = "ok" /\ trStop = "ok"
GatherDoneFirstCompleted == obStop \in {"ok", "exc"} \/ trStop \in {"ok", "exc"}
GatherDone == obStop \in {"ok", "exc"} /\ trStop \in {"ok", "exc"}

\* stop(), lines 175-183: gather returns and merger.stop() is called
MergerStopBegins ==
    /\ stopPc = "gather"
    /\ GatherDone
    /\ stopPc' = "merger"
    /\ mergerState' = "stopping"
    /\ merger_stop_drain
    /\ UNCHANGED <<analyzerVars, now, sourceVars, spikeVars>>
    /\ UNCHANGED <<running, regs, modelVars, tasks, runPc, obStop, trStop>>
    /\ UNCHANGED <<latest_trade_agg, lastEvent, lastUpdate, late>>

\* lines 187-189: task.cancel() on every task that is not done
CancelTasks(ts) ==
    [t \in Tasks |-> IF ts[t] = "running" THEN "cancelling" ELSE ts[t]]

\* stop(), lines 183-191: merger.stop() returns, the tasks are cancelled and
\* stop() waits for them
MergerStopReturns ==
    /\ stopPc = "merger"
    /\ stopPc' = "await"
    /\ mergerState' = "stopped"
    /\ tasks' = CancelTasks(tasks)
    /\ obLive' = FALSE
    /\ trLive' = FALSE
    /\ UNCHANGED <<analyzerVars, now, bookVars, spikeVars>>
    /\ UNCHANGED <<pending, finalized, discarded, lastPrice, nextId, lastOp>>
    /\ UNCHANGED <<running, regs, modelVars, runPc, obStop, trStop>>
    /\ UNCHANGED <<latest_trade_agg, lastEvent, lastUpdate, late>>

\* stop(), line 183: merger.stop() raises and stop() ends with its exception
MergerStopRaises ==
    /\ stopPc = "merger"
    /\ stopPc' = "raised"
    /\ UNCHANGED <<analyzerVars, now, mergerVars, sourceVars, spikeVars>>
    /\ UNCHANGED <<running, regs, modelVars, tasks, runPc, obStop, trStop>>
    /\ UNCHANGED <<latest_trade_agg, lastEvent, lastUpdate, late>>

LoopEnded(t) ==
    IF t = "orderbook" THEN ~obLive
    ELSE IF t = "trades" THEN ~trLive
    ELSE mergerState \in {"stopping", "stopped"}

\* A task's coroutine returns, or the cancellation requested reaches it.
TaskEnds ==
    /\ \E t \in Tasks :
         \/ /\ tasks[t] = "running"
            /\ LoopEnded(t)
            /\ tasks' = [tasks EXCEPT ![t] = "done"]
         \/ /\ tasks[t] = "cancelling"
            /\ tasks' = [tasks EXCEPT ![t] = "cancelled"]
    /\ UNCHANGED <<analyzerVars, now, mergerVars, sourceVars, spikeVars>>
    /\ UNCHANGED <<running, regs, modelVars, runPc, stopPc, obStop, trStop>>
    /\ UNCHANGED <<latest_trade_agg, lastEvent, lastUpdate, late>>

\* stop(), lines 191-192: gather(*self.tasks) returns
AllTasksOver == \A t \in Tasks : tasks[t] \in {"done", "cancelled"}
StopReturns ==
    /\ stopPc = "await"
    /\ AllTasksOver
    /\ stopPc' = "returned"
    /\ UNCHANGED <<analyzerVars, now, mergerVars, sourceVars, spikeVars>>
    /\ UNCHANGED <<running, regs, modelVars, tasks, runPc, obStop, trStop>>
    /\ UNCHANGED <<latest_trade_agg, lastEvent, lastUpdate, late>>

Init ==
    /\ cfg = DefaultCfg
    /\ callbacks = <<>>
    /\ auditLog = <<>>
    /\ logExists = TRUE
    /\ constructions = 1
    /\ cbLog = <<>>
    /\ lastCall = NoCall
    /\ now = 0
    /\ InitRunnerVars
    /\ InitMergerVars

Next ==
    \/ Run \/ RunWhileRunning \/ RunReturns
    \/ Tick \/ OrderbookUpdate \/ RawTrade \/ TradeAggregate
    \/ Stop \/ StopWhenNotRunning
    \/ OrderbookStopEnds \/ TradesStopEnds
    \/ MergerStopBegins \/ MergerStopReturns \/ MergerStopRaises
    \/ TaskEnds \/ StopReturns

Spec == Init /\ [][Next]_vars

----------------------------------------------------------------------------
(* Properties of the runner *)

\* C3: stop() is a strict two-phase shutdown: orderbook.stop() and
\* trades.stop() have both completed before merger.stop() is started,
\* merger.stop() has completed before any task is cancelled, and stop()
\* returns only after all three tasks are over.
C3_TwoPhaseShutdown ==
    /\ (stopPc \in {"merger", "await", "returned", "raised"}
          \/ mergerState \in {"stopping", "stopped"})
         => (obStop \in {"ok", "exc"} /\ trStop \in {"ok", "exc"})
    /\ (\E t \in Tasks : tasks[t] \in {"cancelling", "cancelled"})
         => (mergerState = "stopped" /\ stopPc \in {"await", "returned"})
    /\ stopPc = "returned"
         => \A t \in Tasks : tasks[t] \in {"done", "cancelled"}

\* C3 witness: stop() has returned after a shutdown in which orderbook.stop()
\* ended with an exception and at least one task had to be cancelled.
C3_Witness ==
    /\ stopPc = "returned"
    /\ obStop = "exc" /\ trStop = "ok"
    /\ mergerState = "stopped"
    /\ \E t \in Tasks : tasks[t] = "cancelled"

\* C4: once merger.stop() has been started, no order-book feature event and
\* no raw trade is delivered to the merger, also when orderbook.stop() or
\* trades.stop() ended with an exception.
C4_NoDeliveryAfterMergerStop == ~late

\* C7: after a spike with timestamp t0 was handled, a feature event emitted
\* at a time in (t0, t0 + TTL) carries activity_spike = 1 and one emitted at
\* t0 + TTL or later carries 0, until a new spike arrives; t0 = 0 included.
C7_ActivityFlagTtl ==
    (lastEvent.at # None /\ lastEvent.t0 # None) =>
        /\ (lastEvent.t0 < lastEvent.at /\ lastEvent.at < lastEvent.t0 + ActivitySpikeTtl)
             => lastEvent.activity_spike = 1
        /\ lastEvent.at >= lastEvent.t0 + ActivitySpikeTtl
             => lastEvent.activity_spike = 0

----------------------------------------------------------------------------
(* The analyzer and its log file: analyzers are constructed on the same    *)
(* save_path, one after the other, and each processes aggregates.          *)

MaxConstructions == 2       \* analyzers constructed on the path

\* __init__, lines 31-33: `if save_path and not os.path.exists(save_path)`
\* the file is opened with "w" and closed
create_logTruncates(exists, log) == <<>>
create_log(exists, log) == IF SavePathSet /\ ~exists THEN <<>> ELSE log

\* What the path holds before the first construction: nothing, an empty
\* file, or a file with a line of an earlier run.
OldLine ==
    spike_data(DefaultCfg, [ts |-> 0, buy_volume |-> 6, sell_volume |-> 0,
                            buy_mean |-> 0, sell_mean |-> 0])

InitAuditLog ==
    /\ cfg = DefaultCfg
    /\ callbacks = <<>>
    /\ logExists \in BOOLEAN
    /\ auditLog \in (IF logExists THEN {<<>>, <<OldLine>>} ELSE {<<>>})
    /\ constructions = 0
    /\ cbLog = <<>>
    /\ lastCall = NoCall
    /\ now = 0
    /\ InitRunnerVars
    /\ InitMergerVars

\* TradeActivityAnalyzer(...), lines 22-33
Construct ==
    /\ constructions < MaxConstructions
    /\ \E c \in CfgSet : cfg' = c
    /\ callbacks' = <<>>
    /\ auditLog' = create_log(logExists, auditLog)
    /\ logExists' = (logExists \/ SavePathSet)
    /\ constructions' = constructions + 1
    /\ UNCHANGED <<cbLog, lastCall, now, mergerVars, runnerVars>>

\* The aggregates the analyzers on the path are given: a one-sided one, a
\* balanced one, and one without volume (process_event returns on it).
LoggedAggregates(t) ==
    { [ts |-> t, buy_volume |-> 6, sell_volume |-> 0, buy_mean |-> 0, sell_mean |-> 0],
      [ts |-> t, buy_volume |-> 3, sell_volume |-> 3, buy_mean |-> 0, sell_mean |-> 0],
      [ts |-> t, buy_volume |-> 0, sell_volume |-> 0, buy_mean |-> 5, sell_mean |-> 0] }

ProcessLoggedAggregate ==
    /\ constructions > 0
    /\ now < MaxCalls
    /\ \E agg \in LoggedAggregates(now) : process_event(agg)
    /\ now' = now + 1
    /\ UNCHANGED <<cfg, callbacks, constructions>>
    /\ UNCHANGED <<mergerVars, sourceVars, lifecycleVars, latest_trade_agg, lastEvent, lastUpdate, late>>

\* process_event(agg) when open(save_path, "a") or f.write raises OSError
\* (lines 77-79): nothing catches it, the call ends with the exception
\* before any callback is reached.
process_event_write_fails(agg) ==
    /\ ~ZeroVolumeReturn(agg)
    /\ Detected(cfg, agg)
    /\ SavePathSet
    /\ lastCall' = [agg |-> agg, emitted |-> FALSE, fx |-> <<"write_failed">>,
                    outcome |-> "raised"]
    /\ UNCHANGED <<auditLog, logExists, cbLog, last_activity_spike_ts, hSpike>>

ProcessAggregateWriteFails ==
    /\ constructions > 0
    /\ now < MaxCalls
    /\ \E agg \in LoggedAggregates(now) : process_event_write_fails(agg)
    /\ now' = now + 1
    /\ UNCHANGED <<cfg, callbacks, constructions>>
    /\ UNCHANGED <<mergerVars, sourceVars, lifecycleVars, latest_trade_agg, lastEvent, lastUpdate, late>>

NextAuditLog ==
    \/ Construct \/ RegisterCallback
    \/ ProcessLoggedAggregate \/ ProcessAggregateWriteFails

SpecAuditLog == InitAuditLog /\ [][NextAuditLog]_vars

IsPrefix(s, t) == Len(s) <= Len(t) /\ SubSeq(t, 1, Len(s)) = s

\* C12: the audit log is append-only: whatever a construction or a
\* process_event call does, the lines that were in the log are a prefix of
\* the log afterwards; a construction creates an empty log when the file is
\* absent and leaves an existing log as it is.
C12_AppendOnly ==
    [][ /\ IsPrefix(auditLog, auditLog')
        /\ logExists => logExists'
        /\ constructions' # constructions =>
              /\ logExists'
              /\ logExists => auditLog' = auditLog
              /\ ~logExists => auditLog' = <<>> ]_vars

\* C12 witness: a log that held a line of an earlier run got a second line
\* from the first analyzer, and a second analyzer was constructed after it.
C12_Witness ==
    /\ constructions = 2
    /\ callbacks = <<>> /\ cbLog # <<>>
    /\ Len(auditLog) = 2 /\ auditLog[1] = OldLine /\ auditLog[2] = cbLog[1][2]

\* C18: the event's buy_sell_ratio is buy_volume / sell_volume when
\* sell_volume > 0, the sentinel 1000000 when sell_volume = 0 < buy_volume
\* and 1 otherwise; with the default thresholds every aggregate with
\* non-zero volume on one side only is emitted with reason "spike" or
\* "imbalance", direction "buy" when sell_volume = 0 and "sell" when
\* buy_volume = 0.
C18_RatioAndOneSided ==
    Called =>
      LET a == lastCall.agg
          r == buy_sell_ratio(a)
      IN  /\ a.sell_volume > 0 => r[1] * a.sell_volume = a.buy_volume * r[2]
          /\ (a.sell_volume = 0 /\ a.buy_volume > 0) => r[1] = 1000000 * r[2]
          /\ (a.sell_volume = 0 /\ a.buy_volume = 0) => r[1] = r[2]
          /\ r[2] > 0
          /\ lastCall.emitted => LastLine.buy_sell_ratio = r
          /\ ( /\ cfg = DefaultCfg
               /\ a.buy_volume + a.sell_volume # 0
               /\ a.buy_volume = 0 \/ a.sell_volume = 0 )
             => /\ lastCall.emitted
                /\ LastLine.ts = a.ts
                /\ LastLine.reason \in {"spike", "imbalance"}
                /\ a.sell_volume = 0 => LastLine.direction = "buy"
                /\ a.buy_volume = 0 => LastLine.direction = "sell"

\* C18 witness: under the default thresholds an aggregate of buy volume 1
\* and no sell volume, below every volume threshold, was emitted as an
\* imbalance with direction "buy" and the sentinel as its ratio.
C18_Witness ==
    /\ Called /\ lastCall.emitted /\ cfg = DefaultCfg
    /\ lastCall.agg.buy_volume = 1 /\ lastCall.agg.sell_volume = 0
    /\ LastLine.reason = "imbalance" /\ LastLine.direction = "buy"
    /\ LastLine.buy_sell_ratio = <<1000000, 1>>

\* C17: a failure of the audit-log write inside process_event does not
\* leave process_event as an exception into the trade stream's delivery of
\* aggregates: the call returns.
C17_WriteFailureContained ==
    lastCall.fx = <<"write_failed">> => lastCall.outcome = "returned"

----------------------------------------------------------------------------
(* Properties of the audit log and the callback fan-out *)

\* The ActivitySpikeEvent process_event builds for the aggregate of the
\* call just made.
EmittingAggregate(agg) ==
    /\ agg.buy_volume + agg.sell_volume # 0
    /\ spike(cfg, agg) \/ imbalance(cfg, agg) \/ volume_exceeded(cfg, agg)

\* C11: a process_event call on an aggregate with non-zero total volume that
\* satisfies a detection condition appends exactly one line to the audit log
\* and invokes every registered callback exactly once, in registration
\* order, with that event; a call on an aggregate that satisfies no
\* condition appends no line and invokes no callback.
C11_ExactlyOneEvent ==
    [][ lastCall' # lastCall =>
          LET a    == lastCall'.agg
              data == spike_data(cfg, a)
          IN  IF EmittingAggregate(a)
              THEN /\ auditLog' = Append(auditLog, data)
                   /\ cbLog' = cbLog \o [i \in 1..Len(callbacks) |-> <<i, data>>]
              ELSE /\ auditLog' = auditLog
                   /\ cbLog' = cbLog ]_vars

\* C13: every order-book feature event handed to the merger carries the
\* fields of the most recent TradeAggregate the trade stream delivered
\* before that update, and of no older one; an event emitted before any
\* aggregate was delivered carries no aggregate fields.
C13_LatestAggregateMerged ==
    [][ lastEvent'.n # lastEvent.n => lastEvent'.agg = lastCall.agg ]_vars

\* C13 witness: an aggregate delivered at tick 0 was detected, a second one
\* was delivered at tick 1, and the event emitted after it carries the
\* second.
C13_Witness ==
    /\ Len(auditLog) = 1 /\ auditLog[1].ts = 0
    /\ lastEvent.n = 1
    /\ lastEvent.agg # NoAgg /\ lastEvent.agg.ts = 1
    /\ lastEvent.agg = lastCall.agg

\* C20: in every feature event handed to add_orderbook the fields computed
\* from the order book keep their values: ts is the order book's last
\* update timestamp, and mid_price and activity_spike are the values the
\* handler computed at that update, whatever the cached aggregate holds.
C20_OrderbookFieldsKept ==
    lastEvent.n > 0 =>
        /\ lastEvent.ts = lastEvent.ob_ts
        /\ lastEvent.mid_price = lastUpdate.mid
        /\ lastEvent.activity_spike \in {0, 1}

----------------------------------------------------------------------------
(* RealTimeOrderBook (design document, section 4.1): a bid ladder and an   *)
(* ask ladder, each a map from price level to quantity.  An update message *)
(* names a side, a price level and the level's new quantity; quantity 0    *)
(* removes the level.                                                      *)

Levels == {99, 100, 101}
BookUpdates ==
    [side : {"bid", "ask"}, price : Levels \cup {0}, qty : {-1, 0, 1, 2}]

\* Malformed updates are rejected, not applied.
WellFormed(u) == u.side \in {"bid", "ask"} /\ u.price > 0 /\ u.qty >= 0

set_level(ladder, u) ==
    IF u.qty = 0
    THEN [p \in DOMAIN ladder \ {u.price} |-> ladder[p]]
    ELSE [p \in DOMAIN ladder \cup {u.price} |->
              IF p = u.price THEN u.qty ELSE ladder[p]]

best_bid(ladder) == CHOOSE p \in DOMAIN ladder : \A q \in DOMAIN ladder : q <= p
best_askHighest(ladder) == CHOOSE p \in DOMAIN ladder : \A q \in DOMAIN ladder : q <= p
best_ask(ladder) == CHOOSE p \in DOMAIN ladder : \A q \in DOMAIN ladder : p <= q

\* getMidPrice(): empty when either side is empty, else the exact fraction
\* (best bid + best ask) / 2
AbsentMid == [defined |-> FALSE, num |-> 0, den |-> 1]
get_mid_price(b, a) ==
    IF DOMAIN b = {} \/ DOMAIN a = {} THEN AbsentMid
    ELSE [defined |-> TRUE, num |-> best_bid(b) + best_ask(a), den |-> 2]

\* apply(update)
apply(u) ==
    IF WellFormed(u)
    THEN /\ bids' = IF u.side = "bid" THEN set_level(bids, u) ELSE bids
         /\ asks' = IF u.side = "ask" THEN set_level(asks, u) ELSE asks
         /\ obLast' = [update |-> u, applied |-> TRUE]
    ELSE /\ obLast' = [update |-> u, applied |-> FALSE]
         /\ UNCHANGED <<bids, asks>>

InitOrderBook ==
    /\ cfg = DefaultCfg
    /\ callbacks = <<>>
    /\ auditLog = <<>>
    /\ logExists = TRUE
    /\ constructions = 1
    /\ cbLog = <<>>
    /\ lastCall = NoCall
    /\ now = 0
    /\ InitRunnerVars
    /\ InitMergerVars

BookUpdate ==
    /\ \E u \in BookUpdates : apply(u)
    /\ UNCHANGED <<analyzerVars, now, mergerVars, obLive, trLive, lifecycleVars>>
    /\ UNCHANGED <<spikeVars, latest_trade_agg, lastEvent, lastUpdate, late>>

NextOrderBook == BookUpdate

SpecOrderBook == InitOrderBook /\ [][NextOrderBook]_vars

\* C14: after every applied update the mid price is (best bid + best ask)/2
\* when both ladders hold a level and absent when either holds none; an
\* update with a non-positive price or a negative quantity is rejected and
\* leaves both ladders and the mid price as they were.
C14_MidPrice ==
    [][ LET mid == get_mid_price(bids', asks')
            u   == obLast'.update
        IN  /\ \A p \in DOMAIN bids' : bids'[p] > 0
            /\ \A p \in DOMAIN asks' : asks'[p] > 0
            /\ (DOMAIN bids' # {} /\ DOMAIN asks' # {}) =>
                  /\ mid.defined
                  /\ \E b \in DOMAIN bids', a \in DOMAIN asks' :
                       /\ \A x \in DOMAIN bids' : x <= b
                       /\ \A y \in DOMAIN asks' : a <= y
                       /\ 2 * mid.num = (b + a) * mid.den
            /\ (DOMAIN bids' = {} \/ DOMAIN asks' = {}) => ~mid.defined
            /\ (obLast' # obLast /\ (u.price <= 0 \/ u.qty < 0)) =>
                  /\ ~obLast'.applied
                  /\ bids' = bids /\ asks' = asks
                  /\ mid = get_mid_price(bids, asks) ]_vars

\* C14 witness: two levels on each side, bids 99 and 100, asks 100 and 101
\* (mid price 100), and the last update, a malformed one, was rejected.
C14_Witness ==
    /\ DOMAIN bids = {99, 100} /\ DOMAIN asks = {100, 101}
    /\ get_mid_price(bids, asks) = [defined |-> TRUE, num |-> 200, den |-> 2]
    /\ ~obLast.applied /\ obLast.update.qty < 0

----------------------------------------------------------------------------
(* The shutdown on its own: the lifecycle of one run with raw trades still *)
(* arriving, under the scheduling of the event loop: a source's stop()     *)
(* that was awaited ends (it returns or it raises), and stop() is resumed  *)
(* once the gather it awaits is complete.                                  *)

NextShutdown ==
    \/ Run \/ RunWhileRunning \/ RunReturns
    \/ Tick \/ RawTrade
    \/ Stop \/ StopWhenNotRunning
    \/ OrderbookStopEnds \/ TradesStopEnds
    \/ MergerStopBegins \/ MergerStopReturns \/ MergerStopRaises
    \/ TaskEnds \/ StopReturns

FairShutdown ==
    /\ Init
    /\ [][NextShutdown]_vars
    /\ WF_vars(OrderbookStopEnds)
    /\ WF_vars(TradesStopEnds)
    /\ WF_vars(MergerStopBegins)

\* C15: once stop() has passed its guard on a running runner, merger.stop()
\* is called and drains, also when orderbook.stop() or trades.stop() ended
\* with an exception.
C15_DrainAttempted ==
    (stopPc = "gather") ~> (MergerStopStarted /\ lastOp.kind = "stop")

\* C15 witness: both source stops raised and stop() is inside merger.stop(),
\* whose drain has run.
C15_Witness ==
    /\ obStop = "exc" /\ trStop = "exc"
    /\ stopPc = "merger"
    /\ mergerState = "stopping" /\ lastOp.kind = "stop"

----------------------------------------------------------------------------
(* The runner constructed with any model_path: none, one whose artifact    *)
(* loads, one whose ModelRunner constructor raises.  Order-book updates    *)
(* and raw trades are merged and labeled through one run and its stop().   *)

ModelCases == {"nopath", "loads", "fails"}

InitDegraded ==
    /\ cfg = DefaultCfg
    /\ callbacks = <<>>
    /\ auditLog = <<>>
    /\ logExists = TRUE
    /\ constructions = 1
    /\ cbLog = <<>>
    /\ lastCall = NoCall
    /\ now = 0
    /\ \E mc \in ModelCases : InitRunner(mc)
    /\ InitMergerVars

NextDegraded == NextShutdown \/ OrderbookUpdate

SpecDegraded == InitDegraded /\ [][NextDegraded]_vars

\* C16: when the ModelRunner constructor fails the runner is constructed as
\* it is without a model path: model_runner stays unset and no inference
\* callback is ever subscribed with merger.on_merge.
C16_DegradedWithoutModel ==
    modelCase = "fails" =>
        /\ model_runner = "none"
        /\ model_runner = init_model_runner("nopath")
        /\ merge_callbacks = <<>>

\* C16 witness: a runner whose ModelRunner failed to load has run, merged an
\* order-book feature event, labeled it at stop() and shut down.
C16_Witness ==
    /\ modelCase = "fails"
    /\ regs = 1 /\ callbacks = <<"runner">>
    /\ stopPc = "returned"
    /\ Len(finalized) = 1 /\ finalized[1].label \in {"up", "down", "flat"}

----------------------------------------------------------------------------
(* run() called again on a runner whose stop() has returned.  The order    *)
(* book keeps its observers in a list and notifies every entry, in         *)
(* registration order, synchronously: nothing else runs between the calls  *)
(* one update causes.                                                      *)

MaxRuns == 2                \* run() calls that pass the `_running` guard

\* run(), lines 147-160, after a completed stop(): _setup_callbacks runs
\* again, three new tasks are created and the sources and the merger are
\* started again.
RunAgain ==
    /\ runPc = "returned"
    /\ stopPc = "returned"
    /\ ~running
    /\ regs < MaxRuns
    /\ running' = TRUE
    /\ setup_callbacks
    /\ tasks' = [t \in Tasks |-> "running"]
    /\ obLive' = TRUE
    /\ trLive' = TRUE
    /\ mergerState' = "running"
    /\ runPc' = "loop"
    /\ stopPc' = "idle"
    /\ obStop' = "none"
    /\ trStop' = "none"
    /\ UNCHANGED <<cfg, auditLog, fileVars, cbLog, lastCall, now>>
    /\ UNCHANGED <<pending, finalized, discarded, lastPrice, nextId, lastOp>>
    /\ UNCHANGED <<spikeVars, latest_trade_agg, lastEvent, lastUpdate, late>>
    /\ UNCHANGED <<bookVars, modelCase, model_runner>>

\* The update being notified reaches the next registration of
\* _handle_orderbook_update.
OrderbookNextObserver ==
    /\ lastUpdate.left > 0
    /\ handle_orderbook_update(lastUpdate.mid, lastUpdate.at)
    /\ lastUpdate' = [lastUpdate EXCEPT !.left = @ - 1]
    /\ UNCHANGED <<analyzerVars, now, sourceVars, lifecycleVars>>
    /\ UNCHANGED <<latest_trade_agg, hSpike>>

\* No notification is in progress.
Quiet == lastUpdate.left = 0

NextRerun ==
    \/ Quiet /\ Run
    \/ Quiet /\ RunWhileRunning
    \/ Quiet /\ RunAgain
    \/ Quiet /\ RunReturns
    \/ Quiet /\ Tick
    \/ Quiet /\ OrderbookUpdate
    \/ Quiet /\ Stop
    \/ Quiet /\ StopWhenNotRunning
    \/ Quiet /\ OrderbookStopEnds
    \/ Quiet /\ TradesStopEnds
    \/ Quiet /\ MergerStopBegins
    \/ Quiet /\ MergerStopReturns
    \/ Quiet /\ TaskEnds
    \/ Quiet /\ StopReturns
    \/ OrderbookNextObserver

SpecRerun == Init /\ [][NextRerun]_vars

\* C19: the runner hands exactly one feature event to the merger for each
\* order-book update at which the mid price is defined and none for an
\* update at which it is absent; in the absent case the cached aggregate,
\* the spike timestamp and the merger are left as they were.
C19_OneEventPerUpdate ==
    [][ (lastUpdate' # lastUpdate /\ lastUpdate'.left = 0) =>
          IF lastUpdate'.mid # NoMid
          THEN lastEvent'.n - lastUpdate'.base = 1
          ELSE /\ lastEvent' = lastEvent
               /\ latest_trade_agg' = latest_trade_agg
               /\ last_activity_spike_ts' = last_activity_spike_ts
               /\ UNCHANGED mergerVars ]_vars

\* _handle_activity_spike as registered with activity_analyzer.on_activity
Registrations(cb) == Cardinality({ i \in 1..Len(callbacks) : callbacks[i] = cb })

\* C21: over any sequence of run() and stop() calls on one runner each
\* handler is registered with its source at most once (_setup_callbacks,
\* which registers each handler once, runs at most once), so one order-book
\* update causes at most one add_orderbook call; run() on a running runner
\* creates no tasks and registers nothing.
C21_RegisteredOnce ==
    /\ regs <= 1
    /\ Registrations("runner") <= 1
    /\ lastEvent.n - lastUpdate.base <= 1

----------------------------------------------------------------------------
(* Termination of the shutdown.  stop() is called directly or runs as the  *)
(* task handle_stop_signal creates.  The event loop resumes every          *)
(* coroutine whose await is over: the created task is started, a stop()    *)
(* that was awaited ends (it returns or it raises), run() leaves its loop  *)
(* at the sleep after _running became false, and a task whose loop has     *)
(* ended or whose cancellation was requested finishes.                     *)

\* handle_stop_signal(runner), lines 195-199: asyncio.create_task(runner.stop());
\* the body of stop() has not started yet
handle_stop_signal ==
    /\ stopPc = "idle"
    /\ stopPc' = "scheduled"
    /\ UNCHANGED <<analyzerVars, now, mergerVars, sourceVars, spikeVars>>
    /\ UNCHANGED <<running, regs, modelVars, tasks, runPc, obStop, trStop>>
    /\ UNCHANGED <<latest_trade_agg, lastEvent, lastUpdate, late>>

\* The task created by handle_stop_signal starts: stop() on a running runner
StopTaskStarts ==
    /\ stopPc = "scheduled"
    /\ Stop

\* The task created by handle_stop_signal starts on a runner that is not
\* running: stop() returns at lines 168-169
StopTaskReturnsAtOnce ==
    /\ stopPc = "scheduled"
    /\ ~running
    /\ stopPc' = "idle"
    /\ UNCHANGED <<analyzerVars, now, mergerVars, sourceVars, spikeVars>>
    /\ UNCHANGED <<running, regs, modelVars, tasks, runPc, obStop, trStop>>
    /\ UNCHANGED <<latest_trade_agg, lastEvent, lastUpdate, late>>

\* stop() called directly
StopDirectly ==
    /\ stopPc = "idle"
    /\ Stop

MergerStopEnds == MergerStopReturns \/ MergerStopRaises

NextTermination ==
    \/ Run \/ RunWhileRunning \/ RunReturns
    \/ Tick \/ RawTrade \/ OrderbookUpdate
    \/ StopDirectly \/ StopWhenNotRunning
    \/ handle_stop_signal \/ StopTaskStarts \/ StopTaskReturnsAtOnce
    \/ OrderbookStopEnds \/ TradesStopEnds
    \/ MergerStopBegins \/ MergerStopReturns \/ MergerStopRaises
    \/ TaskEnds \/ StopReturns

FairTermination ==
    /\ Init
    /\ [][NextTermination]_vars
    /\ WF_vars(StopTaskStarts)
    /\ WF_vars(OrderbookStopEnds)
    /\ WF_vars(TradesStopEnds)
    /\ WF_vars(MergerStopBegins)
    /\ WF_vars(MergerStopEnds)
    /\ WF_vars(TaskEnds)
    /\ WF_vars(StopReturns)
    /\ WF_vars(RunReturns)

StopCompleted == stopPc \in {"returned", "raised"}

\* C22: once stop() has passed its guard on a running runner, eventually
\* run() returns and stop() completes, and whenever stop() has completed
\* (it returned, or it ended with the exception of merger.stop()) all three
\* tasks created by run() are over: none is left running.
C22_ShutdownTerminates ==
    /\ (stopPc = "gather") ~> (runPc = "returned" /\ StopCompleted)
    /\ [](StopCompleted => AllTasksOver)

====
